---- MODULE Spec2Model ----
(***************************************************************************)
(* A model of the OPC/UA client of src/client.go: the Client type with its *)
(* secure channel reference, its atomic session cell and its sync.Once,    *)
(* and the methods Connect, Dial, Close, Session, CreateSession,           *)
(* ActivateSession, CloseSession, closeSession, DetachSession, Send,       *)
(* GetEndpoints, Read, Write and Browse.                                   *)
(*                                                                         *)
(* Every goroutine calling into the client has a call stack of frames;     *)
(* one step of the model is one step of the function on top of the stack,  *)
(* cut at the accesses to shared state (the session cell, c.sechan, the    *)
(* secure channel).  The packages uacp and uasc are not part of the        *)
(* sources; their calls are modelled by their outcomes.                    *)
(***************************************************************************)
EXTENDS Integers, Sequences, FiniteSets, TLC

\* ------------------------------------------------------------------ bounds

\* The most sessions the server hands out in CreateSession responses.
MaxSessions == 2

\* The most transport connections uacp.Dial is asked for.
MaxDials == 2

\* --------------------------------------------------------------- constants

\* c.sechan of a Client that was never dialed: the nil *uasc.SecureChannel.
NoChan == 0

\* The typed nil (*Session)(nil) stored in the session cell.
NilSession == 0

\* The zero atomic.Value: nothing was stored yet, Load() returns a nil interface.
Uninit == -1

\* The nil *ua.NodeID: `var authToken *ua.NodeID`.
NullToken == 0

\* The server's authentication tokens are node ids of its own choosing; the
\* model's server gives session number s the token TokenBase + s.
TokenBase == 10

Goroutines == {"main", "other"}

Sessions == 1..MaxSessions

Channels == 1..MaxDials

\* resp.AuthenticationToken of the session the server created as number s.
AuthenticationToken(s) == TokenBase + s

\* ------------------------------------------------------------------ errors

\* An error value: its kind, the function or request it comes from, and the
\* authentication token of the request it comes from.
Error(kind, from, tok) == <<kind, from, tok>>

NoErr == Error("nil", "", NullToken)

\* fmt.Errorf("already connected")
ErrAlreadyConnected == Error("AlreadyConnected", "Connect", NullToken)

\* fmt.Errorf("secure channel already connected")
ErrChannelAlreadyConnected == Error("AlreadyConnected", "Dial", NullToken)

\* fmt.Errorf("secure channel not connected")
ErrChannelNotOpen == Error("ChannelNotOpen", "CreateSession", NullToken)

\* The error of rand.Read.
ErrRand == Error("RandErr", "CreateSession", NullToken)

\* The errors of uacp.Dial, uasc.NewSecureChannel and SecureChannel.Open.
ErrDial(step) == Error("DialErr", step, NullToken)

\* The error of SecureChannel.Close.
ErrClose == Error("CloseErr", "sechan.Close", NullToken)

\* fmt.Errorf("invalid response. Got %T, want ...") of a response handler.
ErrInvalidResponse(req, tok) == Error("InvalidResponse", req, tok)

\* The errors of SecureChannel.Send for a request: the channel is not open,
\* the chunks could not be written, the request was answered by a fault (or
\* not at all).
ErrSend(kind, req, tok) == Error(kind, req, tok)

\* A run-time panic: a nil dereference, a failed type assertion, a Store(nil).
ErrPanic(from) == Error("panic", from, NullToken)

IsAlreadyConnected(e) == e[1] = "AlreadyConnected"

\* ------------------------------------------------------------------- state

VARIABLES
    sechan,       \* Client.sechan: NoChan or the channel Dial opened
    session,      \* Client.session, the atomic.Value: Uninit, NilSession or a session
    once,         \* Client.once: TRUE when once.Do has run
    chanState,    \* per transport connection: "none", "conn", "open", "closed"
    dials,        \* the number of uacp.Dial calls
    nsess,        \* the number of sessions the server created
    closed,       \* the tokens of the sessions the server closed
    goroutines,   \* the goroutines calling into the client
    stack,        \* per goroutine: its call stack, the running frame first
    ret,          \* per goroutine: the results of the call that returned last
    call,         \* per goroutine: the public call under way and the state it started in
    trace,        \* per goroutine: what the public call under way has done so far
    connSession   \* the session the successful Connect installed, NilSession if none

clientVars == <<sechan, session, once>>

serverVars == <<chanState, dials, nsess, closed>>

vars == <<sechan, session, once, chanState, dials, nsess, closed,
          goroutines, stack, ret, call, trace, connSession>>

\* ------------------------------------------------------------------ frames

\* A stack frame: the function, the position in it, its session (argument or
\* local `s`), the request and the authToken it passes on, the error it keeps
\* for later, and the transport connection it works on.
Frame(fn, pc, s, req, tok) ==
    [fn |-> fn, pc |-> pc, s |-> s, req |-> req, tok |-> tok,
     err |-> NoErr, ch |-> NoChan]

\* The caller of the client: "idle" between calls, "done" when a call returned.
Caller(pc) == Frame("caller", pc, NilSession, "", NullToken)

Top(g) == Head(stack[g])

At(g, pc) == g \in goroutines /\ Top(g).pc = pc

\* What a public call records when it starts.
Call(op, arg) ==
    [op |-> op, arg |-> arg, session0 |-> session, sechan0 |-> sechan,
     chanState0 |-> chanState, dials0 |-> dials, nsess0 |-> nsess]

NoCall == [op |-> "", arg |-> NilSession, session0 |-> NilSession, sechan0 |-> NoChan,
           chanState0 |-> [c \in Channels |-> "none"], dials0 |-> 0, nsess0 |-> 0]

\* Trace entries; del is the DeleteSubscriptions field of a request.
Event(ev, name, tok, val, err) ==
    [ev |-> ev, name |-> name, tok |-> tok, val |-> val, err |-> err, del |-> FALSE]

\* req := &ua.CloseSessionRequest{DeleteSubscriptions: true}
CloseSessionRequest == [name |-> "CloseSession", deleteSubscriptions |-> TRUE]

\* A request handed to SecureChannel.Send with its authToken.
ReqEv(req, tok) ==
    [Event("req", req, tok, NilSession, NoErr) EXCEPT
        !.del = req = CloseSessionRequest.name /\ CloseSessionRequest.deleteSubscriptions]

\* The outcome of a request: NoErr when the awaited response arrived.
RespEv(req, tok, err) == Event("resp", req, tok, NilSession, err)

\* c.session.Load() in function fn.
LoadEv(fn, val) == Event("load", fn, NullToken, val, NoErr)

\* c.session.Store(val) in function fn.
StoreEv(fn, val) == Event("store", fn, NullToken, val, NoErr)

\* A call of uacp.Dial.
DialEv == Event("dial", "uacp.Dial", NullToken, NilSession, NoErr)

\* SecureChannel.Close of channel ch returned err.
CloseEv(ch, err) == Event("close", "sechan.Close", NullToken, ch, err)

\* Function fn returned (val, err).
RetEv(fn, val, err) == Event("ret", fn, NullToken, val, err)

NoRet == [val |-> NilSession, err |-> NoErr]

\* The frame on top moves to pc.
Goto(g, pc) ==
    /\ stack' = [stack EXCEPT ![g] = <<[Top(g) EXCEPT !.pc = pc]>> \o Tail(stack[g])]
    /\ ret' = ret

\* The frame on top returns (val, err) to its caller, after the events evs.
Return(g, evs, val, err) ==
    /\ stack' = [stack EXCEPT ![g] = Tail(stack[g])]
    /\ ret' = [ret EXCEPT ![g] = [val |-> val, err |-> err]]
    /\ trace' = [trace EXCEPT ![g] = @ \o evs \o <<RetEv(Top(g).fn, val, err)>>]

\* The goroutine panics in the frame on top: the stack unwinds to the caller.
Panic(g, evs) ==
    /\ stack' = [stack EXCEPT ![g] = <<Caller("done")>>]
    /\ ret' = [ret EXCEPT ![g] = [val |-> NilSession, err |-> ErrPanic(Top(g).fn)]]
    /\ trace' = [trace EXCEPT ![g] = @ \o evs]

Log(g, evs) == trace' = [trace EXCEPT ![g] = @ \o evs]

\* ------------------------------------------------------------------- Init

Init ==
    /\ sechan = NoChan
    /\ session = Uninit
    /\ once = FALSE
    /\ chanState = [c \in Channels |-> "none"]
    /\ dials = 0
    /\ nsess = 0
    /\ closed = {}
    /\ goroutines = {"main"}
    /\ stack = [g \in Goroutines |-> <<Caller("idle")>>]
    /\ ret = [g \in Goroutines |-> NoRet]
    /\ call = [g \in Goroutines |-> NoCall]
    /\ trace = [g \in Goroutines |-> <<>>]
    /\ connSession = NilSession

\* The frames on top of the stack are replaced: the first of `frames` runs next.
Replace(g, frames) ==
    /\ stack' = [stack EXCEPT ![g] = frames \o Tail(stack[g])]
    /\ ret' = ret

\* What a step that works on its own frame and trace leaves alone.
Local == UNCHANGED <<goroutines, call, connSession>>

\* ------------------------------------------------- the caller of the client

PublicOps == {"Connect", "Dial", "Close", "Session", "CreateSession", "ActivateSession",
              "CloseSession", "DetachSession", "GetEndpoints", "Read", "Write", "Browse",
              "opcua.GetEndpoints"}

ServiceOps == {"GetEndpoints", "Read", "Write", "Browse"}

EntryPc(op) == IF op \in ServiceOps THEN "Service" ELSE op

\* The calls that set up and tear down the channel: they read and write
\* c.sechan without synchronisation, and their callers run them alone.
LifecycleOps == {"Connect", "Dial", "Close", "opcua.GetEndpoints"}

\* The goroutine started for one call, as in `go c.Read(req)`, and the calls
\* that overlap: the goroutine is started for one of them during another one
\* of them.
Spawned == {"other"}

SpawnedOps == {"ActivateSession", "CloseSession", "DetachSession", "Read"}

\* c := &Client{EndpointURL: endpoint}: the client is as it was constructed.
NewClient == sechan = NoChan /\ session = Uninit /\ ~once

\* Goroutine g is inside a call.
Running(g) == g \in goroutines /\ Top(g).pc \notin {"idle", "done"}

\* A goroutine calls a public method of the client.  ActivateSession takes a
\* session an earlier CreateSession returned.
Begin(g) ==
    /\ At(g, "idle")
    /\ \E op \in PublicOps, arg \in {NilSession} \cup (1..nsess) :
        /\ (op = "ActivateSession") <=> (arg # NilSession)
        /\ g \in Spawned =>
            /\ op \in SpawnedOps
            /\ \E h \in goroutines \ {g} : Running(h) /\ call[h].op \in SpawnedOps \ {op}
        /\ g \notin Spawned => \A h \in goroutines \cap Spawned : At(h, "idle")
        /\ \A h \in goroutines \ {g} :
            Running(h) => (op \notin LifecycleOps /\ call[h].op \notin LifecycleOps)
        /\ op \in {"Connect", "Dial"} => (dials < MaxDials \/ sechan # NoChan)
        /\ op = "opcua.GetEndpoints" => (NewClient /\ dials < MaxDials)
        /\ stack' = [stack EXCEPT ![g] =
                        <<Frame(op, EntryPc(op), arg, op, NullToken), Caller("done")>>]
        /\ call' = [call EXCEPT ![g] = Call(op, arg)]
    /\ trace' = [trace EXCEPT ![g] = <<>>]
    /\ ret' = [ret EXCEPT ![g] = NoRet]
    /\ UNCHANGED <<clientVars, serverVars, goroutines, connSession>>

\* The caller takes the results of the call and is ready for the next one; a
\* goroutine started for the call ends.
End(g) ==
    /\ At(g, "done")
    /\ stack' = [stack EXCEPT ![g] = <<Caller("idle")>>]
    /\ call' = [call EXCEPT ![g] = NoCall]
    /\ trace' = [trace EXCEPT ![g] = <<>>]
    /\ ret' = [ret EXCEPT ![g] = NoRet]
    /\ goroutines' = IF g \in Spawned THEN goroutines \ {g} ELSE goroutines
    /\ UNCHANGED <<clientVars, serverVars, connSession>>

\* ----------------------------------------------------------- Client.Dial

\* Dial without its check of c.sechan.
DialAlreadyConnected_Never == FALSE

\* `if c.sechan != nil` of Dial.
DialAlreadyConnected == sechan # NoChan

\* c.once.Do(func() { c.session.Store((*Session)(nil)) }), then the check of c.sechan.
Dial_entry(g) ==
    /\ At(g, "Dial")
    /\ once' = TRUE
    /\ session' = IF once THEN session ELSE NilSession
    /\ LET evs == IF once THEN <<>> ELSE <<StoreEv("Dial", NilSession)>>
       IN  IF DialAlreadyConnected
           THEN Return(g, evs, NilSession, ErrChannelAlreadyConnected)
           ELSE Goto(g, "Dial_uacp") /\ Log(g, evs)
    /\ UNCHANGED <<sechan, serverVars>>
    /\ Local

\* conn, err := uacp.Dial(context.Background(), c.EndpointURL)
Dial_uacp(g) ==
    /\ At(g, "Dial_uacp")
    /\ dials < MaxDials
    /\ dials' = dials + 1
    /\ \/ /\ Return(g, <<DialEv>>, NilSession, ErrDial("uacp.Dial"))
          /\ UNCHANGED chanState
       \/ /\ chanState' = [chanState EXCEPT ![dials + 1] = "conn"]
          /\ Replace(g, <<[Top(g) EXCEPT !.pc = "Dial_new", !.ch = dials + 1]>>)
          /\ Log(g, <<DialEv>>)
    /\ UNCHANGED <<clientVars, nsess, closed>>
    /\ Local

\* sechan, err := uasc.NewSecureChannel(c.EndpointURL, conn, cfg); conn.Close() on error.
Dial_new(g) ==
    /\ At(g, "Dial_new")
    /\ \/ /\ chanState' = [chanState EXCEPT ![Top(g).ch] = "closed"]
          /\ Return(g, <<>>, NilSession, ErrDial("NewSecureChannel"))
       \/ /\ Goto(g, "Dial_open")
          /\ UNCHANGED <<chanState, trace>>
    /\ UNCHANGED <<clientVars, dials, nsess, closed>>
    /\ Local

\* sechan.Open(); conn.Close() on error, c.sechan = sechan on success.
Dial_open(g) ==
    /\ At(g, "Dial_open")
    /\ \/ /\ chanState' = [chanState EXCEPT ![Top(g).ch] = "closed"]
          /\ Return(g, <<>>, NilSession, ErrDial("Open"))
          /\ UNCHANGED sechan
       \/ /\ chanState' = [chanState EXCEPT ![Top(g).ch] = "open"]
          /\ sechan' = Top(g).ch
          /\ Return(g, <<>>, NilSession, NoErr)
    /\ UNCHANGED <<session, once, dials, nsess, closed>>
    /\ Local

Dial(g) == Dial_entry(g) \/ Dial_uacp(g) \/ Dial_new(g) \/ Dial_open(g)

\* ---------------------------------------------------------- Client.Close

\* _ = c.CloseSession()
Close_entry(g) ==
    /\ At(g, "Close")
    /\ Replace(g, <<Frame("CloseSession", "CloseSession", NilSession, "", NullToken),
                    [Top(g) EXCEPT !.pc = "Close_sechan"]>>)
    /\ UNCHANGED <<clientVars, serverVars, trace>>
    /\ Local

\* SecureChannel.Close: the CloseSecureChannelRequest is sent as far as
\* possible and the transport is closed, whatever Close returns.
SecureChannelClose(g, ch) ==
    /\ chanState' = [chanState EXCEPT ![ch] = "closed"]
    /\ \E err \in {NoErr, ErrClose} : Return(g, <<CloseEv(ch, err)>>, NilSession, err)

\* Close, were it to return the error of c.CloseSession() before closing the channel.
Close_sechan_SessionError(g) ==
    /\ At(g, "Close_sechan")
    /\ IF sechan = NoChan
       THEN Panic(g, <<>>) /\ UNCHANGED chanState
       ELSE IF ret[g].err # NoErr
       THEN Return(g, <<>>, NilSession, ret[g].err) /\ UNCHANGED chanState
       ELSE SecureChannelClose(g, sechan)
    /\ UNCHANGED <<clientVars, dials, nsess, closed>>
    /\ Local

\* Close, were it to forget the channel it closed.
Close_sechan_Forget(g) ==
    /\ At(g, "Close_sechan")
    /\ IF sechan = NoChan
       THEN Panic(g, <<>>) /\ UNCHANGED <<chanState, sechan>>
       ELSE SecureChannelClose(g, sechan) /\ sechan' = NoChan
    /\ UNCHANGED <<session, once, dials, nsess, closed>>
    /\ Local

\* return c.sechan.Close(), which dereferences a nil c.sechan.
Close_sechan(g) ==
    /\ At(g, "Close_sechan")
    /\ IF sechan = NoChan
       THEN Panic(g, <<>>) /\ UNCHANGED chanState
       ELSE SecureChannelClose(g, sechan)
    /\ UNCHANGED <<clientVars, dials, nsess, closed>>
    /\ Local

Close(g) == Close_entry(g) \/ Close_sechan(g)

\* -------------------------------------------------------- Client.Session

\* return c.session.Load().(*Session): the assertion panics on the nil
\* interface an empty atomic.Value loads.
Session(g) ==
    /\ At(g, "Session")
    /\ IF session = Uninit
       THEN Panic(g, <<>>)
       ELSE Return(g, <<LoadEv("Session", session)>>, session, NoErr)
    /\ UNCHANGED <<clientVars, serverVars>>
    /\ Local

\* ----------------------------------------------------------- Client.Send

\* Send without the injection of the token of the session.
SendAuthToken_Null(s) == NullToken

\* The authToken Send injects for the session s it loaded.
SendAuthToken(s) == IF s # NilSession THEN AuthenticationToken(s) ELSE NullToken

\* s := c.Session(); authToken; c.sechan.Send(req, authToken, h)
Send_entry(g) ==
    /\ At(g, "Send")
    /\ IF session = Uninit
       THEN Panic(g, <<>>)
       ELSE /\ Replace(g, <<Frame("sechan.Send", "sechanSend", NilSession,
                                  Top(g).req, SendAuthToken(session)),
                            [Top(g) EXCEPT !.pc = "Send_ret"]>>)
            /\ Log(g, <<LoadEv("Send", session)>>)
    /\ UNCHANGED <<clientVars, serverVars>>
    /\ Local

\* return c.sechan.Send(req, authToken, h)
Send_ret(g) ==
    /\ At(g, "Send_ret")
    /\ Return(g, <<>>, ret[g].val, ret[g].err)
    /\ UNCHANGED <<clientVars, serverVars>>
    /\ Local

Send(g) == Send_entry(g) \/ Send_ret(g)

\* ------------------------------------------------- the response handlers

\* The handlers of closeSession, GetEndpoints, Read, Write and Browse: they
\* check the type of the response v and keep it.
ServiceHandler(g, v) ==
    LET req == Top(g).req
        tok == Top(g).tok
        err == IF v = "ok" THEN NoErr ELSE ErrInvalidResponse(req, tok)
    IN  /\ Return(g, <<RespEv(req, tok, err)>>, NilSession, err)
        /\ UNCHANGED <<clientVars, nsess>>

\* The handler of CreateSession, were it to store the new session in the client.
CreateSessionHandler_Install(g, v) ==
    LET req == Top(g).req
        tok == Top(g).tok
    IN  /\ IF v = "ok"
           THEN /\ nsess < MaxSessions
                /\ nsess' = nsess + 1
                /\ session' = nsess + 1
                /\ Return(g, <<RespEv(req, tok, NoErr)>>, nsess + 1, NoErr)
           ELSE /\ nsess' = nsess
                /\ session' = session
                /\ Return(g, <<RespEv(req, tok, ErrInvalidResponse(req, tok))>>,
                          NilSession, ErrInvalidResponse(req, tok))
        /\ UNCHANGED <<sechan, once>>

\* The handler of CreateSession: it checks the type of the response and sets
\* s to a new Session holding the response; the client is left alone.
CreateSessionHandler(g, v) ==
    LET req == Top(g).req
        tok == Top(g).tok
    IN  /\ IF v = "ok"
           THEN /\ nsess < MaxSessions
                /\ nsess' = nsess + 1
                /\ Return(g, <<RespEv(req, tok, NoErr)>>, nsess + 1, NoErr)
           ELSE /\ nsess' = nsess
                /\ Return(g, <<RespEv(req, tok, ErrInvalidResponse(req, tok))>>,
                          NilSession, ErrInvalidResponse(req, tok))
        /\ UNCHANGED clientVars

\* The handler of ActivateSession without its call of c.CloseSession().
ActivateSessionHandler_NoClose(g, v) ==
    LET req == Top(g).req
        tok == Top(g).tok
    IN  /\ IF v = "ok"
           THEN /\ stack' = [stack EXCEPT ![g] =
                                <<Frame("ActivateSession.func1", "ActivateSession_closed",
                                        Top(g).s, req, tok),
                                  [Top(g) EXCEPT !.pc = "sechanSend_ret"]>> \o Tail(stack[g])]
                /\ ret' = [ret EXCEPT ![g] = NoRet]
                /\ Log(g, <<RespEv(req, tok, NoErr)>>)
           ELSE Return(g, <<RespEv(req, tok, ErrInvalidResponse(req, tok))>>,
                       NilSession, ErrInvalidResponse(req, tok))
        /\ UNCHANGED <<clientVars, nsess>>

\* The handler of ActivateSession, up to its call of c.CloseSession().
ActivateSessionHandler(g, v) ==
    LET req == Top(g).req
        tok == Top(g).tok
    IN  /\ IF v = "ok"
           THEN /\ Replace(g, <<Frame("CloseSession", "CloseSession", NilSession, "", NullToken),
                                Frame("ActivateSession.func1", "ActivateSession_closed",
                                      Top(g).s, req, tok),
                                [Top(g) EXCEPT !.pc = "sechanSend_ret"]>>)
                /\ Log(g, <<RespEv(req, tok, NoErr)>>)
           ELSE Return(g, <<RespEv(req, tok, ErrInvalidResponse(req, tok))>>,
                       NilSession, ErrInvalidResponse(req, tok))
        /\ UNCHANGED <<clientVars, nsess>>

\* The handler of ActivateSession without c.session.Store(s).
ActivateSession_closed_NoStore(g) ==
    /\ At(g, "ActivateSession_closed")
    /\ IF ret[g].err # NoErr
       THEN /\ Replace(g, <<Frame("closeSession", "closeSession", Top(g).s, "", NullToken),
                            [Top(g) EXCEPT !.pc = "ActivateSession_failed",
                                           !.err = ret[g].err]>>)
            /\ UNCHANGED trace
       ELSE Return(g, <<>>, NilSession, NoErr)
    /\ UNCHANGED <<clientVars, serverVars>>
    /\ Local

\* The handler of ActivateSession after c.CloseSession(): on an error it
\* calls c.closeSession(s) and keeps the error, else it stores s.
ActivateSession_closed(g) ==
    /\ At(g, "ActivateSession_closed")
    /\ IF ret[g].err # NoErr
       THEN /\ Replace(g, <<Frame("closeSession", "closeSession", Top(g).s, "", NullToken),
                            [Top(g) EXCEPT !.pc = "ActivateSession_failed",
                                           !.err = ret[g].err]>>)
            /\ UNCHANGED <<session, trace>>
       ELSE /\ session' = Top(g).s
            /\ Return(g, <<StoreEv("ActivateSession", Top(g).s)>>, NilSession, NoErr)
    /\ UNCHANGED <<sechan, once, serverVars>>
    /\ Local

\* `return err` of the handler of ActivateSession: the error of c.CloseSession().
ActivateSession_failed(g) ==
    /\ At(g, "ActivateSession_failed")
    /\ Return(g, <<>>, NilSession, Top(g).err)
    /\ UNCHANGED <<clientVars, serverVars>>
    /\ Local

\* The handler h runs on the response v.
Handle(g, v) ==
    CASE Top(g).req = "CreateSession" -> CreateSessionHandler(g, v)
      [] Top(g).req = "ActivateSession" -> ActivateSessionHandler(g, v)
      [] OTHER -> ServiceHandler(g, v)

\* --------------------------------------------------- SecureChannel.Send

\* c.sechan.Send(req, authToken, h) up to the write of the request: a nil
\* c.sechan is dereferenced, a channel that is not open refuses the request,
\* and the write fails or succeeds.
SecureChannelSend_write(g) ==
    /\ At(g, "sechanSend")
    /\ LET req == Top(g).req
           tok == Top(g).tok
       IN  IF sechan = NoChan
           THEN Panic(g, <<>>)
           ELSE IF chanState[sechan] # "open"
           THEN Return(g, <<ReqEv(req, tok),
                            RespEv(req, tok, ErrSend("ChannelClosed", req, tok))>>,
                       NilSession, ErrSend("ChannelClosed", req, tok))
           ELSE \/ Return(g, <<ReqEv(req, tok),
                               RespEv(req, tok, ErrSend("WriteErr", req, tok))>>,
                          NilSession, ErrSend("WriteErr", req, tok))
                \/ Goto(g, "sechanSend_wait") /\ Log(g, <<ReqEv(req, tok)>>)
    /\ UNCHANGED <<clientVars, serverVars>>
    /\ Local

\* The request is answered: by a fault or not at all, and Send returns the
\* error without running the handler; or by a response, of the awaited type
\* or of another, on which the handler runs.  The server closes the session
\* of the token of a CloseSessionRequest it answers, and answers no request
\* that carries the token of a session it has closed but by a fault.
SecureChannelSend_wait(g) ==
    /\ At(g, "sechanSend_wait")
    /\ LET req == Top(g).req
           tok == Top(g).tok
       IN  \/ /\ Return(g, <<RespEv(req, tok, ErrSend("ServiceFault", req, tok))>>,
                        NilSession, ErrSend("ServiceFault", req, tok))
              /\ UNCHANGED <<clientVars, nsess, closed>>
           \/ /\ Handle(g, "invalid")
              /\ UNCHANGED closed
           \/ /\ tok \notin closed
              /\ Handle(g, "ok")
              /\ closed' = IF req = "CloseSession" /\ tok # NullToken
                           THEN closed \cup {tok} ELSE closed
    /\ UNCHANGED <<chanState, dials>>
    /\ Local

\* The handler returned: Send returns its error.
SecureChannelSend_ret(g) ==
    /\ At(g, "sechanSend_ret")
    /\ Return(g, <<>>, ret[g].val, ret[g].err)
    /\ UNCHANGED <<clientVars, serverVars>>
    /\ Local

SecureChannelSend(g) ==
    SecureChannelSend_write(g) \/ SecureChannelSend_wait(g) \/ SecureChannelSend_ret(g)

\* ---------------------------------------------------- Client.CloseSession

\* c.closeSession(c.Session())
CloseSession_entry(g) ==
    /\ At(g, "CloseSession")
    /\ IF session = Uninit
       THEN Panic(g, <<>>)
       ELSE /\ Replace(g, <<Frame("closeSession", "closeSession", session, "", NullToken),
                            [Top(g) EXCEPT !.pc = "CloseSession_closed"]>>)
            /\ Log(g, <<LoadEv("CloseSession", session)>>)
    /\ UNCHANGED <<clientVars, serverVars>>
    /\ Local

\* CloseSession, were it to clear the session cell whatever closeSession returned.
CloseSession_closed_AlwaysClear(g) ==
    /\ At(g, "CloseSession_closed")
    /\ session' = NilSession
    /\ Return(g, <<StoreEv("CloseSession", NilSession)>>, NilSession, ret[g].err)
    /\ UNCHANGED <<sechan, once, serverVars>>
    /\ Local

\* `return err` on an error, else c.session.Store((*Session)(nil)).
CloseSession_closed(g) ==
    /\ At(g, "CloseSession_closed")
    /\ IF ret[g].err # NoErr
       THEN /\ Return(g, <<>>, NilSession, ret[g].err)
            /\ UNCHANGED session
       ELSE /\ session' = NilSession
            /\ Return(g, <<StoreEv("CloseSession", NilSession)>>, NilSession, NoErr)
    /\ UNCHANGED <<sechan, once, serverVars>>
    /\ Local

CloseSession(g) == CloseSession_entry(g) \/ CloseSession_closed(g)

\* --------------------------------------------------- Client.closeSession

\* `if s == nil { return nil }`, else c.Send(&ua.CloseSessionRequest{...}, h).
closeSession_entry(g) ==
    /\ At(g, "closeSession")
    /\ IF Top(g).s = NilSession
       THEN Return(g, <<>>, NilSession, NoErr)
       ELSE /\ Replace(g, <<Frame("Send", "Send", NilSession, CloseSessionRequest.name,
                                  NullToken),
                            [Top(g) EXCEPT !.pc = "closeSession_ret"]>>)
            /\ UNCHANGED trace
    /\ UNCHANGED <<clientVars, serverVars>>
    /\ Local

\* return c.Send(req, h)
closeSession_ret(g) ==
    /\ At(g, "closeSession_ret")
    /\ Return(g, <<>>, NilSession, ret[g].err)
    /\ UNCHANGED <<clientVars, serverVars>>
    /\ Local

closeSession(g) == closeSession_entry(g) \/ closeSession_ret(g)

\* -------------------------------------------------- Client.DetachSession

\* s := c.Session()
DetachSession_load(g) ==
    /\ At(g, "DetachSession")
    /\ IF session = Uninit
       THEN Panic(g, <<>>)
       ELSE /\ Replace(g, <<[Top(g) EXCEPT !.pc = "DetachSession_store", !.s = session]>>)
            /\ Log(g, <<LoadEv("DetachSession", session)>>)
    /\ UNCHANGED <<clientVars, serverVars>>
    /\ Local

\* c.session.Store(nil): atomic.Value panics on the store of a nil interface.
DetachSession_store(g) ==
    /\ At(g, "DetachSession_store")
    /\ Panic(g, <<>>)
    /\ UNCHANGED <<clientVars, serverVars>>
    /\ Local

DetachSession(g) == DetachSession_load(g) \/ DetachSession_store(g)

\* --------------------------------------------------- Client.CreateSession

\* CreateSession without its check of c.sechan.
CreateSessionNotConnected_Never == FALSE

\* `if c.sechan == nil` of CreateSession.
CreateSessionNotConnected == sechan = NoChan

\* CreateSession, were it to send through c.Send, which injects the token of
\* the active session.
CreateSessionAuthToken_Active == SendAuthToken(session)

\* The authToken of the CreateSessionRequest: c.sechan.Send(req, nil, ...).
CreateSessionAuthToken == NullToken

\* The check of c.sechan, rand.Read(nonce), c.sechan.Send(req, nil, h).
CreateSession_entry(g) ==
    /\ At(g, "CreateSession")
    /\ IF CreateSessionNotConnected
       THEN Return(g, <<>>, NilSession, ErrChannelNotOpen)
       ELSE \/ Return(g, <<>>, NilSession, ErrRand)
            \/ /\ Replace(g, <<Frame("sechan.Send", "sechanSend", NilSession,
                                     "CreateSession", CreateSessionAuthToken),
                               [Top(g) EXCEPT !.pc = "CreateSession_ret"]>>)
               /\ UNCHANGED trace
    /\ UNCHANGED <<clientVars, serverVars>>
    /\ Local

\* return s, err
CreateSession_ret(g) ==
    /\ At(g, "CreateSession_ret")
    /\ Return(g, <<>>, ret[g].val, ret[g].err)
    /\ UNCHANGED <<clientVars, serverVars>>
    /\ Local

CreateSession(g) == CreateSession_entry(g) \/ CreateSession_ret(g)

\* ------------------------------------------------- Client.ActivateSession

\* ActivateSession, were it to send through c.Send, which injects the token
\* of the active session.
ActivateSessionAuthToken_Active(s) == SendAuthToken(session)

\* The authToken of the ActivateSessionRequest for s: s.resp.AuthenticationToken.
ActivateSessionAuthToken(s) == AuthenticationToken(s)

\* c.sechan.Send(req, s.resp.AuthenticationToken, h)
ActivateSession_entry(g) ==
    /\ At(g, "ActivateSession")
    /\ Replace(g, <<Frame("sechan.Send", "sechanSend", Top(g).s,
                          "ActivateSession", ActivateSessionAuthToken(Top(g).s)),
                    [Top(g) EXCEPT !.pc = "ActivateSession_ret"]>>)
    /\ UNCHANGED <<clientVars, serverVars, trace>>
    /\ Local

\* return c.sechan.Send(...)
ActivateSession_ret(g) ==
    /\ At(g, "ActivateSession_ret")
    /\ Return(g, <<>>, NilSession, ret[g].err)
    /\ UNCHANGED <<clientVars, serverVars>>
    /\ Local

ActivateSession(g) ==
    \/ ActivateSession_entry(g)
    \/ ActivateSession_closed(g)
    \/ ActivateSession_failed(g)
    \/ ActivateSession_ret(g)

\* --------------------------------------------------------- Client.Connect

\* `if c.sechan != nil` of Connect.
ConnectAlreadyConnected == sechan # NoChan

\* The check of c.sechan, then c.Dial(c.Config).
Connect_entry(g) ==
    /\ At(g, "Connect")
    /\ IF ConnectAlreadyConnected
       THEN Return(g, <<>>, NilSession, ErrAlreadyConnected)
       ELSE /\ Replace(g, <<Frame("Dial", "Dial", NilSession, "", NullToken),
                            [Top(g) EXCEPT !.pc = "Connect_dialed"]>>)
            /\ UNCHANGED trace
    /\ UNCHANGED <<clientVars, serverVars>>
    /\ Local

\* `return err` when Dial failed, else c.CreateSession(c.SessionConfig).
Connect_dialed(g) ==
    /\ At(g, "Connect_dialed")
    /\ IF ret[g].err # NoErr
       THEN Return(g, <<>>, NilSession, ret[g].err)
       ELSE /\ Replace(g, <<Frame("CreateSession", "CreateSession", NilSession, "", NullToken),
                            [Top(g) EXCEPT !.pc = "Connect_created"]>>)
            /\ UNCHANGED trace
    /\ UNCHANGED <<clientVars, serverVars>>
    /\ Local

\* `_ = c.Close()` when CreateSession failed, else c.ActivateSession(s).
Connect_created(g) ==
    /\ At(g, "Connect_created")
    /\ IF ret[g].err # NoErr
       THEN Replace(g, <<Frame("Close", "Close", NilSession, "", NullToken),
                         [Top(g) EXCEPT !.pc = "Connect_failed", !.err = ret[g].err]>>)
       ELSE Replace(g, <<Frame("ActivateSession", "ActivateSession", ret[g].val, "", NullToken),
                         [Top(g) EXCEPT !.pc = "Connect_activated", !.s = ret[g].val]>>)
    /\ UNCHANGED <<clientVars, serverVars, trace>>
    /\ Local

\* Connect without c.Close() when ActivateSession failed.
Connect_activated_NoClose(g) ==
    /\ At(g, "Connect_activated")
    /\ Return(g, <<>>, NilSession, ret[g].err)
    /\ connSession' = IF ret[g].err = NoErr THEN Top(g).s ELSE connSession
    /\ UNCHANGED <<clientVars, serverVars, goroutines, call>>

\* `_ = c.Close()` when ActivateSession failed, else `return nil`.
Connect_activated(g) ==
    /\ At(g, "Connect_activated")
    /\ IF ret[g].err # NoErr
       THEN /\ Replace(g, <<Frame("Close", "Close", NilSession, "", NullToken),
                            [Top(g) EXCEPT !.pc = "Connect_failed", !.err = ret[g].err]>>)
            /\ UNCHANGED <<trace, connSession>>
       ELSE /\ Return(g, <<>>, NilSession, NoErr)
            /\ connSession' = Top(g).s
    /\ UNCHANGED <<clientVars, serverVars, goroutines, call>>

\* `return err` after c.Close(): the error of the step that failed.
Connect_failed(g) ==
    /\ At(g, "Connect_failed")
    /\ Return(g, <<>>, NilSession, Top(g).err)
    /\ UNCHANGED <<clientVars, serverVars>>
    /\ Local

Connect(g) ==
    \/ Connect_entry(g)
    \/ Connect_dialed(g)
    \/ Connect_created(g)
    \/ Connect_activated(g)
    \/ Connect_failed(g)

\* ------------------------------- GetEndpoints, Read, Write and Browse

\* err := c.Send(req, h) of a service call.
Service_entry(g, name) ==
    /\ At(g, "Service")
    /\ Top(g).fn = name
    /\ Replace(g, <<Frame("Send", "Send", NilSession, name, NullToken),
                    [Top(g) EXCEPT !.pc = "Service_ret"]>>)
    /\ UNCHANGED <<clientVars, serverVars, trace>>
    /\ Local

\* return res, err
Service_ret(g, name) ==
    /\ At(g, "Service_ret")
    /\ Top(g).fn = name
    /\ Return(g, <<>>, NilSession, ret[g].err)
    /\ UNCHANGED <<clientVars, serverVars>>
    /\ Local

GetEndpoints(g) == Service_entry(g, "GetEndpoints") \/ Service_ret(g, "GetEndpoints")

Read(g) == Service_entry(g, "Read") \/ Service_ret(g, "Read")

Write(g) == Service_entry(g, "Write") \/ Service_ret(g, "Write")

Browse(g) == Service_entry(g, "Browse") \/ Service_ret(g, "Browse")

\* ------------------------------------------- GetEndpoints(endpoint)

\* c := &Client{EndpointURL: endpoint}; c.Dial(c.Config)
opcua_GetEndpoints_entry(g) ==
    /\ At(g, "opcua.GetEndpoints")
    /\ Replace(g, <<Frame("Dial", "Dial", NilSession, "", NullToken),
                    [Top(g) EXCEPT !.pc = "opcua.GetEndpoints_dialed"]>>)
    /\ UNCHANGED <<clientVars, serverVars, trace>>
    /\ Local

\* GetEndpoints(endpoint) without `defer c.Close()`.
opcua_GetEndpoints_dialed_NoDefer(g) ==
    /\ At(g, "opcua.GetEndpoints_dialed")
    /\ IF ret[g].err # NoErr
       THEN Return(g, <<>>, NilSession, ret[g].err)
       ELSE /\ Replace(g, <<Frame("GetEndpoints", "Service", NilSession, "GetEndpoints",
                                  NullToken),
                            [Top(g) EXCEPT !.pc = "opcua.GetEndpoints_ret"]>>)
            /\ UNCHANGED trace
    /\ UNCHANGED <<clientVars, serverVars>>
    /\ Local

\* `return nil, err` when Dial failed, else `defer c.Close()` and c.GetEndpoints().
opcua_GetEndpoints_dialed(g) ==
    /\ At(g, "opcua.GetEndpoints_dialed")
    /\ IF ret[g].err # NoErr
       THEN Return(g, <<>>, NilSession, ret[g].err)
       ELSE /\ Replace(g, <<Frame("GetEndpoints", "Service", NilSession, "GetEndpoints",
                                  NullToken),
                            [Top(g) EXCEPT !.pc = "opcua.GetEndpoints_deferred"]>>)
            /\ UNCHANGED trace
    /\ UNCHANGED <<clientVars, serverVars>>
    /\ Local

\* Either `return` after c.GetEndpoints(): its error is kept and the deferred
\* c.Close() runs.
opcua_GetEndpoints_deferred(g) ==
    /\ At(g, "opcua.GetEndpoints_deferred")
    /\ Replace(g, <<Frame("Close", "Close", NilSession, "", NullToken),
                    [Top(g) EXCEPT !.pc = "opcua.GetEndpoints_ret", !.err = ret[g].err]>>)
    /\ UNCHANGED <<clientVars, serverVars, trace>>
    /\ Local

\* The function returns the error of c.GetEndpoints(); what the deferred
\* c.Close() returned is dropped.
opcua_GetEndpoints_ret(g) ==
    /\ At(g, "opcua.GetEndpoints_ret")
    /\ Return(g, <<>>, NilSession, Top(g).err)
    /\ UNCHANGED <<clientVars, serverVars>>
    /\ Local

opcua_GetEndpoints(g) ==
    \/ opcua_GetEndpoints_entry(g)
    \/ opcua_GetEndpoints_dialed(g)
    \/ opcua_GetEndpoints_deferred(g)
    \/ opcua_GetEndpoints_ret(g)

\* ------------------------------------------------------ the specification

Step(g) ==
    \/ Begin(g)
    \/ End(g)
    \/ Connect(g)
    \/ Dial(g)
    \/ Close(g)
    \/ Session(g)
    \/ CreateSession(g)
    \/ ActivateSession(g)
    \/ CloseSession(g)
    \/ closeSession(g)
    \/ DetachSession(g)
    \/ Send(g)
    \/ SecureChannelSend(g)
    \/ opcua_GetEndpoints(g)
    \/ GetEndpoints(g)
    \/ Read(g)
    \/ Write(g)
    \/ Browse(g)

Next == \E g \in Goroutines : Step(g)

\* One goroutine calls into the client, one call after the other.
Spec == Init /\ [][Next]_vars

\* Two goroutines share the client.
InitConc ==
    /\ sechan = NoChan
    /\ session = Uninit
    /\ once = FALSE
    /\ chanState = [c \in Channels |-> "none"]
    /\ dials = 0
    /\ nsess = 0
    /\ closed = {}
    /\ goroutines = Goroutines
    /\ stack = [g \in Goroutines |-> <<Caller("idle")>>]
    /\ ret = [g \in Goroutines |-> NoRet]
    /\ call = [g \in Goroutines |-> NoCall]
    /\ trace = [g \in Goroutines |-> <<>>]
    /\ connSession = NilSession

\* Two goroutines call into the client, their calls interleaved step by step.
SpecConc == InitConc /\ [][Next]_vars

\* ------------------------------------------------------------ properties

\* The public call op of goroutine g has returned.
Done(g, op) == g \in goroutines /\ Top(g).pc = "done" /\ call[g].op = op

\* The positions of the trace of g at which event ev of name is recorded.
Where(g, ev, name) ==
    {i \in DOMAIN trace[g] : trace[g][i].ev = ev /\ trace[g][i].name = name}

\* The positions of the trace of g that record a request handed to the channel.
Requests(g) == {i \in DOMAIN trace[g] : trace[g][i].ev = "req"}

\* The positions at which Client.Send hands a request to the channel: right
\* after its load of the session cell.
SentBySend(g) ==
    {i \in Requests(g) : i > 1 /\ trace[g][i - 1].ev = "load" /\ trace[g][i - 1].name = "Send"}

\* The returns of the three steps of Connect, in the order they happened.
ConnectSteps(g) ==
    SelectSeq(trace[g], LAMBDA e : e.ev = "ret" /\ e.name \in {"Dial", "CreateSession",
                                                                "ActivateSession"})

\* The session the ActivateSessionRequest of the call under way is for: the
\* argument of ActivateSession, in Connect the session CreateSession returned.
Activated(g) ==
    IF call[g].op = "ActivateSession"
    THEN call[g].arg
    ELSE LET created == Where(g, "ret", "CreateSession")
         IN  IF created = {} THEN NilSession
             ELSE trace[g][CHOOSE i \in created : \A j \in created : j <= i].val

\* C1: Connect or Dial on a client that holds a secure channel fails with
\* the already-connected error and changes nothing: the channel stays the
\* client's channel in the state it was in, no transport is dialed, no
\* request is handed to the channel and the session cell is not written.
C1_AlreadyConnected ==
    \A g \in goroutines :
        (/\ Top(g).pc = "done"
         /\ call[g].op \in {"Connect", "Dial"}
         /\ call[g].sechan0 # NoChan)
        => /\ IsAlreadyConnected(ret[g].err)
           /\ sechan = call[g].sechan0
           /\ chanState = call[g].chanState0
           /\ dials = call[g].dials0
           /\ session = call[g].session0
           /\ \A i \in DOMAIN trace[g] : trace[g][i].ev \notin {"req", "dial", "store"}

\* A second Connect has returned on a client with an open channel and an active session.
C1_Witness ==
    \E g \in goroutines :
        /\ Done(g, "Connect")
        /\ call[g].sechan0 # NoChan
        /\ chanState[sechan] = "open"
        /\ session \in Sessions

\* C2: Connect on a client without a channel runs Dial, CreateSession and
\* ActivateSession in this order, each only when the one before succeeded,
\* and returns the error of the first that fails, nil when none does; when
\* CreateSession or ActivateSession is the one that fails, the channel Dial
\* opened is closed and no session is active when Connect returns.
C2_ConnectSteps ==
    \A g \in goroutines :
        (Done(g, "Connect") /\ call[g].sechan0 = NoChan)
        => LET steps == ConnectSteps(g)
               n == Len(steps)
           IN  /\ n \in 1..3
               /\ [i \in 1..n |-> steps[i].name]
                    = SubSeq(<<"Dial", "CreateSession", "ActivateSession">>, 1, n)
               /\ \A i \in 1..(n - 1) : steps[i].err = NoErr
               /\ ret[g].err = steps[n].err
               /\ n < 3 => steps[n].err # NoErr
               /\ (n >= 2 /\ ret[g].err # NoErr)
                    => /\ sechan # NoChan
                       /\ chanState[sechan] = "closed"
                       /\ session = NilSession

\* Connect has returned the error of ActivateSession.
C2_Witness ==
    \E g \in goroutines :
        /\ Done(g, "Connect")
        /\ Len(ConnectSteps(g)) = 3
        /\ ret[g].err # NoErr
        /\ ret[g].err[2] = "ActivateSession"

\* C3: when Connect returns without error the active session is the session
\* its CreateSession step returned, and from then on, as long as that
\* session is the active one, every request Client.Send hands to the
\* channel carries the authentication token of that session.
C3_ConnectSession ==
    \A g \in goroutines :
        /\ (Done(g, "Connect") /\ ret[g].err = NoErr)
           => /\ session \in 1..nsess
              /\ \E i \in Where(g, "ret", "CreateSession") : trace[g][i].val = session
              /\ connSession = session
        /\ (/\ Top(g).fn = "sechan.Send"
            /\ Len(stack[g]) > 1
            /\ stack[g][2].fn = "Send"
            /\ connSession # NilSession
            /\ session = connSession)
           => /\ Top(g).tok = AuthenticationToken(connSession)
              /\ Top(g).tok # NullToken

\* After a successful Connect a Read has been sent with the token of the
\* session of that Connect.
C3_Witness ==
    \E g \in goroutines :
        /\ Done(g, "Read")
        /\ connSession # NilSession
        /\ \E i \in SentBySend(g) :
            /\ trace[g][i].name = "Read"
            /\ trace[g][i].tok = AuthenticationToken(connSession)

\* Every request but those of CreateSession and ActivateSession is handed to
\* the channel by Client.Send, with the token of the session Send loaded: the
\* null token exactly when it loaded no session.
C4_Tokens ==
    \A g \in goroutines :
        /\ \A i \in Requests(g) :
            trace[g][i].name \notin {"CreateSession", "ActivateSession"} => i \in SentBySend(g)
        /\ \A i \in SentBySend(g) :
            LET s == trace[g][i - 1].val
            IN  /\ s \in Sessions => trace[g][i].tok = AuthenticationToken(s)
                /\ trace[g][i].tok = NullToken <=> s = NilSession

\* A step of Client.Send, or of the channel sending for Client.Send with a
\* handler that only checks the response, leaves the session cell alone.
C4_SendKeepsSession ==
    \A g \in goroutines :
        (/\ stack'[g] # stack[g]
         /\ \/ Top(g).fn = "Send"
            \/ Top(g).fn = "sechan.Send" /\ stack[g][2].fn = "Send")
        => session' = session

\* C4: every request Client.Send hands to the secure channel carries the
\* authentication token of the session active when Send loads the session
\* cell, the null token exactly when none is active then, and Send does not
\* change the active session.
C4_SendInjectsToken == []C4_Tokens /\ [][C4_SendKeepsSession]_vars

\* CloseSession has sent its request through Client.Send with the token of
\* the session that was active.
C4_Witness ==
    \E g \in goroutines :
        /\ Done(g, "CloseSession")
        /\ call[g].session0 \in Sessions
        /\ \E i \in SentBySend(g) :
            trace[g][i].tok = AuthenticationToken(call[g].session0)

\* C5: the CreateSessionRequest is handed to the channel with the null
\* authentication token in every state of the client, also when a session
\* is active.
C5_CreateSessionNullToken ==
    \A g \in goroutines :
        /\ \A i \in Requests(g) :
            trace[g][i].name = "CreateSession" => trace[g][i].tok = NullToken
        /\ (Top(g).fn = "sechan.Send" /\ Top(g).req = "CreateSession")
           => Top(g).tok = NullToken

\* A CreateSessionRequest is on its way while a session is active.
C5_Witness ==
    \E g \in goroutines :
        /\ At(g, "sechanSend_wait")
        /\ Top(g).req = "CreateSession"
        /\ session \in Sessions
        /\ \E i \in Requests(g) : trace[g][i].name = "CreateSession"

\* C6: CreateSession returns a new session and does not install it: when it
\* returns, with or without error, the session cell holds what it held when
\* CreateSession was called, nothing was stored in it, no CloseSessionRequest
\* was sent, and a session it returns is not the active one.
C6_CreateSessionKeepsSession ==
    \A g \in goroutines :
        Done(g, "CreateSession")
        => /\ session = call[g].session0
           /\ \A i \in DOMAIN trace[g] : trace[g][i].ev # "store"
           /\ \A i \in Requests(g) : trace[g][i].name # "CloseSession"
           /\ ret[g].err = NoErr
                => /\ ret[g].val \in 1..nsess
                   /\ ret[g].val > call[g].nsess0
                   /\ ret[g].val # session
           /\ ret[g].err # NoErr => ret[g].val = NilSession

\* CreateSession has returned a session while another one is active.
C6_Witness ==
    \E g \in goroutines :
        /\ Done(g, "CreateSession")
        /\ ret[g].err = NoErr
        /\ call[g].session0 \in Sessions

\* C7: CreateSession on a client without a channel fails with the
\* channel-not-open error, returns no session and hands no request to a
\* channel; CreateSession succeeds only on a channel that is open.
C7_CreateSessionNeedsChannel ==
    \A g \in goroutines :
        Done(g, "CreateSession")
        => /\ call[g].sechan0 = NoChan
                => /\ ret[g].err = ErrChannelNotOpen
                   /\ ret[g].val = NilSession
                   /\ Requests(g) = {}
           /\ ret[g].err = NoErr
                => /\ call[g].sechan0 # NoChan
                   /\ call[g].chanState0[call[g].sechan0] = "open"

\* CreateSession has returned on a client whose Dial failed.
C7_Witness ==
    \E g \in goroutines :
        /\ Done(g, "CreateSession")
        /\ call[g].sechan0 = NoChan
        /\ dials > 0

\* C8: the ActivateSessionRequest for session s carries the authentication
\* token of s: not the null token, and not the token of another session
\* that is active.
C8_ActivateSessionToken ==
    \A g \in goroutines :
        \A i \in Requests(g) :
            trace[g][i].name = "ActivateSession"
            => /\ Activated(g) \in 1..nsess
               /\ trace[g][i].tok = AuthenticationToken(Activated(g))
               /\ trace[g][i].tok # NullToken
               /\ (call[g].session0 \in Sessions /\ call[g].session0 # Activated(g))
                    => trace[g][i].tok # AuthenticationToken(call[g].session0)

\* An ActivateSessionRequest is on its way while another session is active.
C8_Witness ==
    \E g \in goroutines :
        /\ At(g, "sechanSend_wait")
        /\ Top(g).req = "ActivateSession"
        /\ session \in Sessions
        /\ session # Top(g).s

\* C9: when ActivateSession(s2) returns without error, s2 is the active
\* session; if a session s1 was active, a CloseSessionRequest with the token
\* of s1 was sent after the response to the ActivateSessionRequest and
\* before s2 was stored; if none was active, no CloseSessionRequest was sent.
C9_ActivateReplaces ==
    \A g \in goroutines :
        (Done(g, "ActivateSession") /\ ret[g].err = NoErr)
        => LET s1 == call[g].session0
               s2 == call[g].arg
           IN  /\ session = s2
               /\ s1 \in Sessions
                    => \E i \in Where(g, "resp", "ActivateSession"),
                          j \in Where(g, "req", "CloseSession"),
                          k \in Where(g, "store", "ActivateSession") :
                            /\ i < j /\ j < k
                            /\ trace[g][i].err = NoErr
                            /\ trace[g][j].tok = AuthenticationToken(s1)
                            /\ trace[g][k].val = s2
               /\ s1 = NilSession => Where(g, "req", "CloseSession") = {}

\* ActivateSession has replaced an active session by another one.
C9_Witness ==
    \E g \in goroutines :
        /\ Done(g, "ActivateSession")
        /\ ret[g].err = NoErr
        /\ call[g].session0 \in Sessions
        /\ call[g].session0 # call[g].arg

\* C10: when, in ActivateSession(s2), closing the active session s1 fails,
\* a CloseSessionRequest with the token of s2 is sent after it,
\* ActivateSession returns the error of the close of s1, and s2 is not
\* installed.
C10_FailedCloseClosesNew ==
    \A g \in goroutines :
        Done(g, "ActivateSession")
        => \A i \in Where(g, "ret", "CloseSession") :
            trace[g][i].err # NoErr
            => /\ \E j \in Where(g, "req", "CloseSession") :
                    /\ j > i
                    /\ trace[g][j].tok = AuthenticationToken(call[g].arg)
               /\ ret[g].err = trace[g][i].err
               /\ session = call[g].session0
               /\ Where(g, "store", "ActivateSession") = {}

\* C11: CloseSession with an active session hands exactly one
\* CloseSessionRequest, with deleteSubscriptions set and the token of that
\* session, to the channel, and when the request succeeds it stores nil in
\* the session cell and returns no error; CloseSession with no active
\* session sends nothing, returns no error and leaves no session active.
C11_CloseSession ==
    \A g \in goroutines :
        Done(g, "CloseSession")
        => LET s == call[g].session0
           IN  /\ s \in Sessions
                    => /\ Cardinality(Requests(g)) = 1
                       /\ \A i \in Requests(g) :
                            /\ trace[g][i].name = "CloseSession"
                            /\ trace[g][i].del
                            /\ trace[g][i].tok = AuthenticationToken(s)
                       /\ ret[g].err = NoErr => session = NilSession
                       /\ ret[g].err # NoErr => session = s
               /\ s \notin Sessions
                    => /\ Requests(g) = {}
                       /\ ret[g].err = NoErr
                       /\ session = NilSession

\* What holds of CloseSession on a client whose session cell Dial has
\* initialised: C11_CloseSession but for the client that was never dialed.
C11_CloseSessionAfterDial ==
    \A g \in goroutines :
        (Done(g, "CloseSession") /\ call[g].session0 # Uninit)
        => LET s == call[g].session0
           IN  /\ s \in Sessions
                    => /\ Cardinality(Requests(g)) = 1
                       /\ \A i \in Requests(g) :
                            /\ trace[g][i].name = "CloseSession"
                            /\ trace[g][i].del
                            /\ trace[g][i].tok = AuthenticationToken(s)
                       /\ ret[g].err = NoErr => session = NilSession
               /\ s = NilSession
                    => /\ Requests(g) = {}
                       /\ ret[g].err = NoErr
                       /\ session = NilSession

\* C12: DetachSession on a client whose session cell is initialised returns
\* the session that was active, or nil when none was, with no error, leaves
\* no session active and hands no request to the channel.
C12_DetachSession ==
    \A g \in goroutines :
        (Done(g, "DetachSession") /\ call[g].session0 # Uninit)
        => /\ ret[g].err = NoErr
           /\ ret[g].val = call[g].session0
           /\ session = NilSession
           /\ Requests(g) = {}

\* C13: Close on a client that holds a channel first runs CloseSession and
\* then closes the channel, whatever CloseSession returned; Close returns
\* what the close of the channel returned, never the error of CloseSession.
C13_Close ==
    \A g \in goroutines :
        (Done(g, "Close") /\ call[g].sechan0 # NoChan)
        => /\ Cardinality(Where(g, "ret", "CloseSession")) = 1
           /\ Cardinality(Where(g, "close", "sechan.Close")) = 1
           /\ \A i \in Where(g, "ret", "CloseSession"), j \in Where(g, "close", "sechan.Close") :
                /\ i < j
                /\ trace[g][j].val = sechan
                /\ ret[g].err = trace[g][j].err
                /\ trace[g][i].err # NoErr => ret[g].err # trace[g][i].err
           /\ chanState[sechan] = "closed"

\* Close has returned nil although its CloseSession failed.
C13_Witness ==
    \E g \in goroutines :
        /\ Done(g, "Close")
        /\ call[g].sechan0 # NoChan
        /\ call[g].chanState0[call[g].sechan0] = "open"
        /\ ret[g].err = NoErr
        /\ \E i \in Where(g, "ret", "CloseSession") : trace[g][i].err # NoErr

\* C14: while goroutine a is inside ActivateSession(s2) on a client whose
\* active session was s1, the session a Send of another goroutine b loads,
\* whose token it attaches, is s1 or s2 and never nil.
C14_SendSeesOldOrNew ==
    [][\A a \in goroutines, b \in goroutines :
        ( /\ a # b
          /\ Running(a)
          /\ call[a].op = "ActivateSession"
          /\ call[a].session0 \in Sessions
          /\ call[b].op \in ServiceOps
          /\ At(b, "Send")
          /\ stack'[b] # stack[b] )
        => session \in {call[a].session0, call[a].arg}]_vars

\* C15: every call of Session, on a client never dialed included, returns,
\* and returns nil or a session an earlier CreateSession of this client
\* returned.
C15_SessionReturns ==
    \A g \in goroutines :
        Done(g, "Session")
        => /\ ret[g].err = NoErr
           /\ ret[g].val \in {NilSession} \cup (1..nsess)

\* C16: Client.GetEndpoints on a client that holds a channel and has no
\* active session returns without a panic, hands the channel one
\* GetEndpointsRequest, with the null token, and no other request, and leaves
\* no session active; GetEndpoints(endpoint), once its Dial succeeded, returns
\* the error of its request with the channel it dialed closed, and else
\* returns the error of Dial with no channel.
C16_GetEndpoints ==
    \A g \in goroutines :
        /\ ( /\ Done(g, "GetEndpoints")
             /\ call[g].sechan0 # NoChan
             /\ call[g].session0 = NilSession )
           => /\ ret[g].err # ErrPanic("GetEndpoints")
              /\ Cardinality(Requests(g)) = 1
              /\ \A i \in Requests(g) :
                    trace[g][i].name = "GetEndpoints" /\ trace[g][i].tok = NullToken
              /\ session = NilSession
        /\ Done(g, "opcua.GetEndpoints")
           => \A d \in Where(g, "ret", "Dial") :
                IF trace[g][d].err = NoErr
                THEN /\ sechan # NoChan /\ chanState[sechan] = "closed"
                     /\ Cardinality(Requests(g)) = 1
                     /\ \A i \in Requests(g) :
                            trace[g][i].name = "GetEndpoints" /\ trace[g][i].tok = NullToken
                     /\ \E i \in Where(g, "ret", "GetEndpoints"),
                           j \in Where(g, "close", "sechan.Close") :
                            i < j /\ trace[g][j].val = sechan /\ ret[g].err = trace[g][i].err
                     /\ session = NilSession
                ELSE /\ sechan = NoChan
                     /\ ret[g].err = trace[g][d].err
                     /\ Requests(g) = {}

\* GetEndpoints(endpoint) has returned the error of its request, and the
\* channel it dialed is closed.
C16_Witness ==
    \E g \in goroutines :
        /\ Done(g, "opcua.GetEndpoints")
        /\ ret[g].err = ErrSend("ServiceFault", "GetEndpoints", NullToken)
        /\ sechan # NoChan
        /\ chanState[sechan] = "closed"

\* C17, of the returns: Dial and Connect on a client that holds a channel,
\* open or closed, fail with the already-connected error, and a Dial that
\* fails on a client without a channel leaves it without one.
C17_Returns ==
    \A g \in goroutines :
        /\ ((Done(g, "Dial") \/ Done(g, "Connect")) /\ call[g].sechan0 # NoChan)
           => IsAlreadyConnected(ret[g].err) /\ sechan = call[g].sechan0
        /\ (Done(g, "Dial") /\ call[g].sechan0 = NoChan /\ ret[g].err # NoErr)
           => sechan = NoChan

\* C17, of the steps: a channel reference that is set is never written
\* again, and the reference is only written by the step of Dial that returns
\* nil, with the channel it opened.
C17_Steps ==
    /\ sechan # NoChan => sechan' = sechan
    /\ sechan' # sechan
       => \E g \in goroutines :
            /\ At(g, "Dial_open")
            /\ ret'[g].err = NoErr
            /\ chanState'[sechan'] = "open"

\* C17: the channel reference of the client is set only by a Dial that
\* succeeds and is never cleared; once set, later calls of Dial and Connect
\* fail with the already-connected error, after Close and after a Connect
\* that failed past its Dial as well; a Dial that fails leaves no channel.
C17_ChannelReference == []C17_Returns /\ [][C17_Steps]_vars

\* Connect fails with the already-connected error on a client whose channel
\* Close has closed.
C17_Witness ==
    \E g \in goroutines :
        /\ Done(g, "Connect")
        /\ call[g].sechan0 # NoChan
        /\ call[g].chanState0[call[g].sechan0] = "closed"
        /\ IsAlreadyConnected(ret[g].err)

\* C18: a CloseSession whose CloseSessionRequest failed returns the error of
\* the request and leaves the session cell as it was; after Close returned on
\* a client that holds a channel, no session is active exactly when none was
\* before or its CloseSession returned nil, and else the session that was
\* active still is, on a channel that is closed.
C18_FailedClose ==
    \A g \in goroutines :
        /\ Done(g, "CloseSession")
           => \A i \in Where(g, "resp", "CloseSession") :
                trace[g][i].err # NoErr
                => ret[g].err = trace[g][i].err /\ session = call[g].session0
        /\ (Done(g, "Close") /\ call[g].sechan0 # NoChan)
           => \A i \in Where(g, "ret", "CloseSession") :
                /\ session = NilSession
                    <=> (call[g].session0 = NilSession \/ trace[g][i].err = NoErr)
                /\ session # NilSession
                    => session = call[g].session0 /\ chanState[sechan] = "closed"

\* Close has returned on a channel that was open, its CloseSessionRequest
\* failed, and the session that was active still is.
C18_Witness ==
    \E g \in goroutines :
        /\ Done(g, "Close")
        /\ call[g].sechan0 # NoChan
        /\ call[g].chanState0[call[g].sechan0] = "open"
        /\ \E i \in Where(g, "resp", "CloseSession") : trace[g][i].err # NoErr
        /\ session \in Sessions
        /\ session = call[g].session0
        /\ chanState[sechan] = "closed"

\* C19: the session Session returns is never a session whose
\* CloseSessionRequest the server has answered with success.
C19_ActiveNotClosed ==
    \A g \in goroutines :
        (Done(g, "Session") /\ ret[g].val \in Sessions)
        => AuthenticationToken(ret[g].val) \notin closed

\* C20: when a call of CloseSession, whose request succeeded or was not
\* needed, stores nil in the session cell, the session it removes, if any, is
\* the session whose token its CloseSessionRequest carried, whatever another
\* goroutine did in between.
C20_CloseRemovesClosed ==
    [][\A b \in goroutines :
        ( /\ call[b].op = "CloseSession"
          /\ At(b, "CloseSession_closed")
          /\ ret[b].err = NoErr
          /\ stack'[b] # stack[b]
          /\ session \in Sessions )
        => \E i \in Where(b, "req", "CloseSession") :
                trace[b][i].tok = AuthenticationToken(session)]_vars

====
